---------------------------- MODULE Spec2Model ----------------------------
(***************************************************************************)
(* create_sow.py: create_document() builds a statement-of-work document    *)
(* with python-docx, statement by statement, and saves it.                 *)
(*                                                                         *)
(* The function body is kept as a sequence of statements (Program), each   *)
(* block of it translated from the lines of the source it names, with the  *)
(* for-loops expanded over their literal lists as the interpreter expands  *)
(* them.  One action executes one kind of statement against the in-memory  *)
(* document, the frame's local variables and the file system.  A build is  *)
(* one call of create_document(); builds follow one another (the script is *)
(* run again, possibly from another working directory).                    *)
(***************************************************************************)
EXTENDS Naturals, Sequences, FiniteSets

VARIABLES
    status,      \* "idle" | "running" | "returned" | "raised"
    pc,          \* index in Program of the next statement of the running call
    exc,         \* the exception that ended the call ("None" when none)
    cwd,         \* the working directory the relative output path resolves in
    document,    \* the Document object of the running call
    locals,      \* the call's local variables: name -> handle
    fs,          \* the file system: directory -> the output file in it
    builds,      \* calls of create_document() made so far
    applied,     \* history: indices of the statements executed in this call
    assigned,    \* history: the cell-text assignments attempted in this call
    saves,       \* history: document.save calls made in this call
    saveFailed,  \* history: a save of this call failed
    built        \* history: per save, the destination and the structure saved

vars == <<status, pc, exc, cwd, document, locals, fs, builds,
          applied, assigned, saves, saveFailed, built>>

\* Calls of create_document() the model follows.
MaxBuilds == 2

\* Working directories the script may be started from.
Dirs == {"dirA", "dirB"}

\* The relative path handed to document.save.
OutputName == "Edu_Explore_Statement_of_Work.docx"

(***************************************************************************)
(* Statements                                                              *)
(***************************************************************************)

\* One statement: the operation, the local variable it binds or goes
\* through, and its arguments (r, c: zero-based row and column; line: the
\* source line).
Stmt(op, var, text, level, style, r, c, flag, line) ==
    [op |-> op, var |-> var, text |-> text, level |-> level, style |-> style,
     r |-> r, c |-> c, flag |-> flag, line |-> line]

\* document = Document()
NewDocument(line) == Stmt("new_document", "document", "", 0, "", 0, 0, "none", line)

\* var = document.add_heading(text, level)
AddHeading(var, text, level, line) ==
    Stmt("add_heading", var, text, level, "", 0, 0, "none", line)

\* var.alignment = WD_PARAGRAPH_ALIGNMENT.<style>
SetAlignment(var, align, line) ==
    Stmt("set_alignment", var, "", 0, align, 0, 0, "none", line)

\* var = document.add_paragraph(text, style)
AddParagraph(var, text, style, line) ==
    Stmt("add_paragraph", var, text, 0, style, 0, 0, "none", line)

\* var.add_run(text), with .bold = True or .italic = True when flagged
AddRun(var, text, flag, line) ==
    Stmt("add_run", var, text, 0, "", 0, 0, flag, line)

\* var = document.add_table(rows=r, cols=c)
AddTable(var, r, c, line) ==
    Stmt("add_table", var, "", 0, "", r, c, "none", line)

\* var.style = style
SetTableStyle(var, style, line) ==
    Stmt("set_table_style", var, "", 0, style, 0, 0, "none", line)

\* var = <table>.rows[r].cells  (the table's name travels in style)
RowCells(var, table, r, line) ==
    Stmt("row_cells", var, "", 0, table, r, 0, "none", line)

\* var[c].text = text, var a row's cells
RowCellText(var, c, text, line) ==
    Stmt("cell_text", var, text, 0, "row", 0, c, "none", line)

\* var.rows[r].cells[c].text = text, var a table
TableCellText(var, r, c, text, line) ==
    Stmt("cell_text", var, text, 0, "table", r, c, "none", line)

\* var[c].paragraphs[0].runs[0].bold = True, var a row's cells
RowCellBold(var, c, line) ==
    Stmt("cell_bold", var, "", 0, "row", 0, c, "bold", line)

\* var.rows[r].cells[c].paragraphs[0].runs[0].bold = True, var a table
TableCellBold(var, r, c, line) ==
    Stmt("cell_bold", var, "", 0, "table", r, c, "bold", line)

\* document.save(path)
Save(path, line) == Stmt("save", "document", path, 0, "", 0, 0, "none", line)

\* The statements of a for-loop: the bodies of its iterations, in order.
RECURSIVE Flatten(_)
Flatten(ss) == IF ss = <<>> THEN <<>> ELSE Head(ss) \o Flatten(Tail(ss))

(***************************************************************************)
(* The body of create_document(), block by block                           *)
(***************************************************************************)

NewDocumentBlock == << NewDocument(6) >>

TitleBlock ==
    << AddHeading("title", "Statement of work: Edu-Explore Website Build", 0, 9),
       SetAlignment("title", "LEFT", 10) >>

MetadataBlock ==
    << AddParagraph("p", "", "", 13),
       AddRun("p", "Version: ", "bold", 14),
       AddRun("p", "1.0\n", "none", 15),
       AddRun("p", "Date: ", "bold", 16),
       AddRun("p", "January 14, 2026\n", "none", 17),
       AddRun("p", "Author: ", "bold", 18),
       AddRun("p", "Navaneetha Krishnan R", "none", 19) >>

ProjectInfoBlock ==
    << AddHeading("", "Project information", 1, 22),
       AddTable("table", 3, 3, 23),
       SetTableStyle("table", "Table Grid", 24),
       RowCells("hdr_cells", "table", 0, 27),
       RowCellText("hdr_cells", 0, "Role", 28),
       RowCellText("hdr_cells", 1, "Name", 29),
       RowCellText("hdr_cells", 2, "Email and telephone", 30),
       RowCells("row1", "table", 1, 33),
       RowCellText("row1", 0, "Client point of contact", 34),
       RowCellText("row1", 1, "Benita", 35),
       RowCellText("row1", 2, "[Client Email] [Client Phone]", 36),
       RowCells("row2", "table", 2, 39),
       RowCellText("row2", 0, "Agency point of contact", 40),
       RowCellText("row2", 1, "Navaneetha Krishnan R", 41),
       RowCellText("row2", 2, "[Agency Email] [Agency Phone]", 42) >>

data ==
    << <<"Start date", "TBD">>,
       <<"Deadline", "TBD">>,
       <<"Project overview", "The goal of this project is to build a conversion-focused website for Edu-Explore to clearly present services (Career Counselling, Study Abroad, Training) and drive consultation bookings. We aim to revive the inactive domain edu-xplore.com and implement an automated booking flow.">>,
       <<"Project scope", "In Scope:\n1. Setup of hosting for edu-xplore.com.\n2. Design and development of Landing Page with conversion CTAs.\n3. Integration of booking engine (Calendly/Google Meet) with Calendar sync.\n4. Creation of service pages: Study Abroad (US, UK, Asia, etc.), Career Counselling, MAX ME Training.\n5. Mobile responsive design.\n\nNot In Scope:\n1. Content writing (text to be provided by client).\n2. Purchase of third-party licenses (hosting, paid booking tools).">>,
       <<"Project timeline", "High-level timeline to be confirmed upon booking tool selection and hosting finalization.">>,
       <<"Project budget", "TBD">>,
       <<"Risk, constraints, and assumptions", "Constraints: Hosting is currently expired and requires immediate renewal.\nAssumptions: Client has access to GoDaddy account for DNS updates.">> >>

\* Faulty variant of the summary loop body: the value cell is made bold
\* instead of the key cell.
SummaryRowBoldValue(i) ==
    << RowCells("row", "summary_table", i, 60),
       RowCellText("row", 0, data[i + 1][1], 61),
       RowCellText("row", 1, data[i + 1][2], 62),
       RowCellBold("row", 1, 63) >>

\* Faulty variant of the summary loop body: the key cell's first run is made
\* bold before the cell has been given its text.
SummaryRowBoldFirst(i) ==
    << RowCells("row", "summary_table", i, 60),
       RowCellBold("row", 0, 63),
       RowCellText("row", 0, data[i + 1][1], 61),
       RowCellText("row", 1, data[i + 1][2], 62) >>

\* The body of the summary loop for enumerate index i (zero-based).
SummaryRow(i) ==
    << RowCells("row", "summary_table", i, 60),
       RowCellText("row", 0, data[i + 1][1], 61),
       RowCellText("row", 1, data[i + 1][2], 62),
       RowCellBold("row", 0, 63) >>

SummaryBlock ==
    << AddHeading("", "Project summary", 1, 45),
       AddTable("summary_table", 7, 2, 46),
       SetTableStyle("summary_table", "Table Grid", 47) >>
    \o Flatten([k \in 1..Len(data) |-> SummaryRow(k - 1)])

phases_list ==
    << "Phase 1: Mobilization & Infrastructure",
       "Phase 2: Design & User Flow",
       "Phase 3: Development & Integration",
       "Phase 4: Launch & Handover" >>

ScopeBlock ==
    << AddHeading("", "Project scope and process", 1, 66),
       AddParagraph("", "We break the project into 4 key phases to minimize risk through clear checkpoints, reviews, and controls at the beginning and end of a phase.", "", 67) >>
    \o [k \in 1..Len(phases_list) |-> AddParagraph("", phases_list[k], "List Bullet", 76)]

m_headers == << "Milestone", "Description", "Start date", "Due date" >>

m_data ==
    << <<"Phase 1", "Hosting setup & Tool selection", "TBD", "TBD">>,
       <<"Phase 2", "Wireframes & Design Approval", "TBD", "TBD">>,
       <<"Phase 3", "Functional Website Build", "TBD", "TBD">>,
       <<"Phase 4", "Go-Live", "TBD", "TBD">> >>

\* Faulty variant of the milestone loop body: rows[i] instead of rows[i+1],
\* so that the header row is overwritten and the last row stays empty.
MilestoneRowShifted(i) ==
    << RowCells("cells", "milestone_table", i, 98),
       RowCellText("cells", 0, m_data[i + 1][1], 99),
       RowCellText("cells", 1, m_data[i + 1][2], 100),
       RowCellText("cells", 2, m_data[i + 1][3], 101),
       RowCellText("cells", 3, m_data[i + 1][4], 102) >>

\* The body of the milestone loop for enumerate index i (zero-based).
MilestoneRow(i) ==
    << RowCells("cells", "milestone_table", i + 1, 98),
       RowCellText("cells", 0, m_data[i + 1][1], 99),
       RowCellText("cells", 1, m_data[i + 1][2], 100),
       RowCellText("cells", 2, m_data[i + 1][3], 101),
       RowCellText("cells", 3, m_data[i + 1][4], 102) >>

MilestonesBlock ==
    << AddHeading("", "Project milestones", 1, 79),
       AddParagraph("p_italic", "", "", 80),
       AddRun("p_italic", "Please see Project Plan for a detailed project schedule.", "italic", 81),
       AddTable("milestone_table", 5, 4, 83),
       SetTableStyle("milestone_table", "Table Grid", 84) >>
    \o [k \in 1..Len(m_headers) |-> TableCellText("milestone_table", 0, k - 1, m_headers[k], 88)]
    \o Flatten([k \in 1..Len(m_data) |-> MilestoneRow(k - 1)])

\* Faulty variant: the level-1 heading of the phases section is left out.
ProjectPhasesHeadingOmitted == << >>

ProjectPhasesHeading == << AddHeading("", "Project phases", 1, 105) >>

Phase1Block ==
    << AddHeading("", "Phase 1: Mobilization & Infrastructure", 2, 108),
       AddParagraph("", "Phase description: Finalizing the technical foundation and tools required for the build.", "", 109),
       AddTable("p1_table", 3, 2, 110),
       SetTableStyle("p1_table", "Table Grid", 111),
       TableCellText("p1_table", 0, 0, "Deliverable / task", 112),
       TableCellText("p1_table", 0, 1, "Description", 113),
       TableCellText("p1_table", 1, 0, "Hosting Renewal", 114),
       TableCellText("p1_table", 1, 1, "Assist client in renewing/purchasing hosting for edu-xplore.com.", 115),
       TableCellText("p1_table", 2, 0, "Tool Selection", 116),
       TableCellText("p1_table", 2, 1, "Finalize decision between Calendly vs. Google Meet for booking flow.", 117) >>

Phase2Block ==
    << AddHeading("", "Phase 2: Design & User Flow", 2, 120),
       AddParagraph("", "Phase description: Defining the visual structure and user journey.", "", 121),
       AddTable("p2_table", 3, 2, 122),
       SetTableStyle("p2_table", "Table Grid", 123),
       TableCellText("p2_table", 0, 0, "Deliverable / task", 124),
       TableCellText("p2_table", 0, 1, "Description", 125),
       TableCellText("p2_table", 1, 0, "Sitemap & Flow", 126),
       TableCellText("p2_table", 1, 1, "Define navigation for Study Abroad, Counselling, and Training tabs.", 127),
       TableCellText("p2_table", 2, 0, "UI Mockups", 128),
       TableCellText("p2_table", 2, 1, "Create visual mockups for the Landing Page with \"Learn More\", \"Call Now\" CTAs.", 129) >>

Phase3Block ==
    << AddHeading("", "Phase 3: Development & Integration", 2, 132),
       AddParagraph("", "Phase description: Building the actual website pages and connecting functional elements.", "", 133),
       AddTable("p3_table", 4, 2, 134),
       SetTableStyle("p3_table", "Table Grid", 135),
       TableCellText("p3_table", 0, 0, "Deliverable / task", 136),
       TableCellText("p3_table", 0, 1, "Description", 137),
       TableCellText("p3_table", 1, 0, "Landing Page Build", 138),
       TableCellText("p3_table", 1, 1, "Develop primary landing page focused on conversion.", 139),
       TableCellText("p3_table", 2, 0, "Booking Integration", 140),
       TableCellText("p3_table", 2, 1, "Implement booking logic, calendar sync, and WhatsApp/Email notification triggers.", 141),
       TableCellText("p3_table", 3, 0, "Service Pages", 142),
       TableCellText("p3_table", 3, 1, "Build dedicated pages for MAX ME partnership and Country-wise study programs.", 143) >>

Phase4Block ==
    << AddHeading("", "Phase 4: Launch & Handover", 2, 146),
       AddParagraph("", "Phase description: Final testing and deployment to the live server.", "", 147),
       AddTable("p4_table", 3, 2, 148),
       SetTableStyle("p4_table", "Table Grid", 149),
       TableCellText("p4_table", 0, 0, "Deliverable / task", 150),
       TableCellText("p4_table", 0, 1, "Description", 151),
       TableCellText("p4_table", 1, 0, "Testing", 152),
       TableCellText("p4_table", 1, 1, "Verify mobile responsiveness and booking flow functionality.", 153),
       TableCellText("p4_table", 2, 0, "Go-Live", 154),
       TableCellText("p4_table", 2, 1, "Point domain DNS to new hosting and publish site.", 155) >>

b_headers == << "Invoice", "Milestone/phase", "Amount", "Due date" >>

b_data ==
    << <<"1", "Project Initiation (Upfront)", "TBD", "TBD">>,
       <<"2", "Design Sign-off", "TBD", "TBD">>,
       <<"3", "Project Completion", "TBD", "TBD">>,
       <<"Total", "", "TBD", "">> >>

\* The body of the budget loop for enumerate index i (zero-based).
BudgetRow(i) ==
    << RowCells("cells", "budget_table", i + 1, 176),
       RowCellText("cells", 0, b_data[i + 1][1], 177),
       RowCellText("cells", 1, b_data[i + 1][2], 178),
       RowCellText("cells", 2, b_data[i + 1][3], 179),
       RowCellText("cells", 3, b_data[i + 1][4], 180) >>

\* Bold the Total row.
TotalRowBold ==
    << TableCellBold("budget_table", 4, 0, 183),
       TableCellBold("budget_table", 4, 2, 184) >>

BudgetBlock ==
    << AddHeading("", "Project budget and billing schedule", 1, 158),
       AddParagraph("p_budget", "", "", 159),
       AddRun("p_budget", "If the project budget has been created, list the payments related to the project below.", "italic", 160),
       AddTable("budget_table", 5, 4, 162),
       SetTableStyle("budget_table", "Table Grid", 163) >>
    \o [k \in 1..Len(b_headers) |-> TableCellText("budget_table", 0, k - 1, b_headers[k], 166)]
    \o Flatten([k \in 1..Len(b_data) |-> BudgetRow(k - 1)])
    \o TotalRowBold

risks ==
    << "Risks: Delays in hosting renewal may push back the start date.",
       "Constraints: The domain edu-xplore.com is valid until 2027, but the site is currently inactive due to expired hosting.",
       "Assumptions: Edu-Explore will provide all necessary logos, images, and text content for the service pages." >>

RisksBlock ==
    << AddHeading("", "General risks, constraints, and assumptions", 1, 187) >>
    \o [k \in 1..Len(risks) |-> AddParagraph("", risks[k], "List Bullet", 194)]

ChangeRequestsBlock ==
    << AddHeading("", "Change requests", 1, 197),
       AddParagraph("", "Any changes to the approved scope (e.g., adding payment gateways, new pages not listed, or complex student portals) will be treated as a Change Request. These will be estimated separately and may incur additional costs and timeline extensions.", "", 198) >>

reqs ==
    << "Access: Developer requires access to the GoDaddy domain management console.",
       "Certification Info: Client to provide specific details regarding the MAX ME Australian certification for the Training page." >>

OtherRequirementsBlock ==
    << AddHeading("", "Other project requirements", 1, 201) >>
    \o [k \in 1..Len(reqs) |-> AddParagraph("", reqs[k], "List Bullet", 207)]

SaveBlock == << Save(OutputName, 209) >>

\* Faulty variant of the function body: the document is saved before the
\* last section is added.
ProgramSaveEarly ==
    NewDocumentBlock \o TitleBlock \o MetadataBlock \o ProjectInfoBlock
    \o SummaryBlock \o ScopeBlock \o MilestonesBlock
    \o ProjectPhasesHeading \o Phase1Block \o Phase2Block \o Phase3Block \o Phase4Block
    \o BudgetBlock \o RisksBlock \o ChangeRequestsBlock
    \o SaveBlock \o OtherRequirementsBlock

\* create_document(), lines 5-209.
Program ==
    NewDocumentBlock \o TitleBlock \o MetadataBlock \o ProjectInfoBlock
    \o SummaryBlock \o ScopeBlock \o MilestonesBlock
    \o ProjectPhasesHeading \o Phase1Block \o Phase2Block \o Phase3Block \o Phase4Block
    \o BudgetBlock \o RisksBlock \o ChangeRequestsBlock \o OtherRequirementsBlock
    \o SaveBlock


(***************************************************************************)
(* The document object model (python-docx, as create_document() uses it)   *)
(***************************************************************************)

\* No Document object (before line 6, and once the call's frame is gone).
NoDocument == [live |-> FALSE, body |-> <<>>]

\* Faulty variant: the document is opened from the file already at the
\* output path, when a build has left one there.
DocumentFromExisting ==
    IF fs[cwd].state = "complete"
    THEN [live |-> TRUE, body |-> fs[cwd].body]
    ELSE [live |-> TRUE, body |-> <<>>]

\* Document(): a new document from the default template, its body empty.
Document == [live |-> TRUE, body |-> <<>>]

\* A run as add_run(text) makes it, with the flag the statement sets on it.
NewRun(text, flag) ==
    [text |-> text, bold |-> (flag = "bold"), italic |-> (flag = "italic")]

\* add_heading's paragraph style for a level: "Title" for 0, else "Heading n".
HeadingStyle(level) ==
    IF level = 0 THEN "Title"
    ELSE << "Heading 1", "Heading 2", "Heading 3", "Heading 4", "Heading 5",
            "Heading 6", "Heading 7", "Heading 8", "Heading 9" >>[level]

\* add_paragraph(text, style): a run only when text is not empty.  src is the
\* index in Program of the statement that created the element.
NewParagraph(text, style, src) ==
    [kind |-> "p", style |-> style, align |-> "",
     runs |-> IF text = "" THEN <<>> ELSE << NewRun(text, "none") >>,
     rows |-> <<>>, src |-> src]

\* add_table(rows, cols): every cell one empty paragraph, without a run.
NewTable(r, c, src) ==
    [kind |-> "tbl", style |-> "", align |-> "", runs |-> <<>>,
     rows |-> [i \in 1..r |-> [j \in 1..c |-> [runs |-> <<>>]]], src |-> src]

\* Faulty variant: the new element is put first.
AppendElementFront(body, e) == << e >> \o body

\* The body with a new block-level element: it goes last.
AppendElement(body, e) == Append(body, e)

\* cell.text = text: the cell's content becomes one paragraph of one run.
SetCellText(tbl, r, c, text) ==
    [tbl EXCEPT !.rows[r + 1][c + 1].runs = << NewRun(text, "none") >>]

\* cell.paragraphs[0].runs[0].bold = True
SetCellBold(tbl, r, c) ==
    [tbl EXCEPT !.rows[r + 1][c + 1].runs[1].bold = TRUE]

\* rows[r] and cells[c] exist (zero-based, as the statements index them).
InBounds(tbl, r, c) ==
    /\ tbl.kind = "tbl"
    /\ r < Len(tbl.rows)
    /\ c < Len(tbl.rows[r + 1])

(***************************************************************************)
(* The frame of a call                                                     *)
(***************************************************************************)

LocalNames == {Program[k].var : k \in 1..Len(Program)} \ {"", "document"}

NoHandle == [kind |-> "none", elem |-> 0, row |-> 0]

NoLocals == [n \in LocalNames |-> NoHandle]

\* var = <value>; a result that is not assigned is dropped.
Bind(l, var, h) == IF var \in LocalNames THEN [l EXCEPT ![var] = h] ELSE l

\* The statement about to run.
Cur == Program[pc]

\* The cell a cell_text or cell_bold statement addresses: through a row's
\* cells (row[c]) or through the table (table.rows[r].cells[c]).
CellRef(stmt) ==
    IF stmt.style = "row"
    THEN [elem |-> locals[stmt.var].elem, r |-> locals[stmt.var].row, c |-> stmt.c]
    ELSE [elem |-> locals[stmt.var].elem, r |-> stmt.r, c |-> stmt.c]

\* Faulty variant: the exception is caught and the call returns normally.
PropagateSwallowed(e) == [status |-> "returned", exc |-> "None"]

\* Where an exception raised in create_document() ends: nothing in the
\* function nor under __main__ catches it, so the call ends with it.
Propagate(e) == [status |-> "raised", exc |-> e]

\* Faulty variant: the file is written at one fixed place, wherever the
\* script is run.
SaveTargetFixed == "dirA"

\* The file document.save(path) writes: the relative path, in cwd.
SaveTarget == cwd

(***************************************************************************)
(* Initial state                                                           *)
(***************************************************************************)

NoFile == [state |-> "absent", body |-> <<>>]

\* A file left at the output path by something else.
OtherFile == [state |-> "other", body |-> <<>>]

Init ==
    /\ status = "idle"
    /\ pc = 1
    /\ exc = "None"
    /\ cwd \in Dirs
    /\ document = NoDocument
    /\ locals = NoLocals
    /\ fs \in [Dirs -> {NoFile, OtherFile}]
    /\ builds = 0
    /\ applied = {}
    /\ assigned = <<>>
    /\ saves = 0
    /\ saveFailed = FALSE
    /\ built = <<>>

(***************************************************************************)
(* Actions                                                                 *)
(***************************************************************************)

Running(op) ==
    /\ status = "running"
    /\ pc \in 1..Len(Program)
    /\ Cur.op = op

\* The statement completed: on to the next one.
Advance ==
    /\ pc' = pc + 1
    /\ applied' = applied \cup {pc}
    /\ UNCHANGED <<status, exc>>

\* The statement raised e: the call ends, its frame is released.
Raise(e) ==
    /\ status' = Propagate(e).status
    /\ exc' = Propagate(e).exc
    /\ document' = NoDocument
    /\ locals' = NoLocals
    /\ UNCHANGED <<pc, applied>>

\* if __name__ == "__main__": create_document()
Call ==
    /\ status \in {"idle", "returned", "raised"}
    /\ builds < MaxBuilds
    /\ cwd' \in Dirs
    /\ status' = "running"
    /\ pc' = 1
    /\ exc' = "None"
    /\ document' = NoDocument
    /\ locals' = NoLocals
    /\ builds' = builds + 1
    /\ applied' = {}
    /\ assigned' = <<>>
    /\ saves' = 0
    /\ saveFailed' = FALSE
    /\ UNCHANGED <<fs, built>>

\* document = Document()
DocumentNew ==
    /\ Running("new_document")
    /\ document' = Document
    /\ Advance
    /\ UNCHANGED <<cwd, locals, fs, builds, assigned, saves, saveFailed, built>>

\* document.add_heading(text, level)
AddHeadingStep ==
    /\ Running("add_heading")
    /\ IF Cur.level > 9
       THEN Raise("ValueError")
       ELSE /\ document' = [document EXCEPT !.body =
                   AppendElement(@, NewParagraph(Cur.text, HeadingStyle(Cur.level), pc))]
            /\ locals' = Bind(locals, Cur.var,
                   [kind |-> "elem", elem |-> Len(document.body) + 1, row |-> 0])
            /\ Advance
    /\ UNCHANGED <<cwd, fs, builds, assigned, saves, saveFailed, built>>

\* title.alignment = WD_PARAGRAPH_ALIGNMENT.LEFT
SetAlignmentStep ==
    /\ Running("set_alignment")
    /\ document' = [document EXCEPT !.body[locals[Cur.var].elem].align = Cur.style]
    /\ Advance
    /\ UNCHANGED <<cwd, locals, fs, builds, assigned, saves, saveFailed, built>>

\* document.add_paragraph(text, style)
AddParagraphStep ==
    /\ Running("add_paragraph")
    /\ document' = [document EXCEPT !.body =
           AppendElement(@, NewParagraph(Cur.text, Cur.style, pc))]
    /\ locals' = Bind(locals, Cur.var,
           [kind |-> "elem", elem |-> Len(document.body) + 1, row |-> 0])
    /\ Advance
    /\ UNCHANGED <<cwd, fs, builds, assigned, saves, saveFailed, built>>

\* p.add_run(text), p.add_run(text).bold = True, p.add_run(text).italic = True
AddRunStep ==
    /\ Running("add_run")
    /\ document' = [document EXCEPT !.body[locals[Cur.var].elem].runs =
           Append(@, NewRun(Cur.text, Cur.flag))]
    /\ Advance
    /\ UNCHANGED <<cwd, locals, fs, builds, assigned, saves, saveFailed, built>>

\* document.add_table(rows, cols)
AddTableStep ==
    /\ Running("add_table")
    /\ document' = [document EXCEPT !.body =
           AppendElement(@, NewTable(Cur.r, Cur.c, pc))]
    /\ locals' = Bind(locals, Cur.var,
           [kind |-> "elem", elem |-> Len(document.body) + 1, row |-> 0])
    /\ Advance
    /\ UNCHANGED <<cwd, fs, builds, assigned, saves, saveFailed, built>>

\* table.style = 'Table Grid'
SetTableStyleStep ==
    /\ Running("set_table_style")
    /\ document' = [document EXCEPT !.body[locals[Cur.var].elem].style = Cur.style]
    /\ Advance
    /\ UNCHANGED <<cwd, locals, fs, builds, assigned, saves, saveFailed, built>>

\* row = table.rows[i].cells: IndexError when the table has no row i.
RowCellsStep ==
    /\ Running("row_cells")
    /\ IF ~InBounds(document.body[locals[Cur.style].elem], Cur.r, 0)
       THEN Raise("IndexError")
       ELSE /\ locals' = Bind(locals, Cur.var,
                   [kind |-> "row", elem |-> locals[Cur.style].elem, row |-> Cur.r])
            /\ Advance
            /\ UNCHANGED document
    /\ UNCHANGED <<cwd, fs, builds, assigned, saves, saveFailed, built>>

\* <cell>.text = text: IndexError when the table has no such row or column.
CellTextStep ==
    /\ Running("cell_text")
    /\ LET ref == CellRef(Cur)
       IN  /\ assigned' = Append(assigned, [elem |-> ref.elem, r |-> ref.r,
                                            c |-> ref.c, text |-> Cur.text])
           /\ IF ~InBounds(document.body[ref.elem], ref.r, ref.c)
              THEN Raise("IndexError")
              ELSE /\ document' = [document EXCEPT !.body[ref.elem] =
                          SetCellText(@, ref.r, ref.c, Cur.text)]
                   /\ Advance
                   /\ UNCHANGED locals
    /\ UNCHANGED <<cwd, fs, builds, saves, saveFailed, built>>

\* <cell>.paragraphs[0].runs[0].bold = True: IndexError when the table has no
\* such cell, or the cell's paragraph has no run yet.
CellBoldStep ==
    /\ Running("cell_bold")
    /\ LET ref == CellRef(Cur)
           tbl == document.body[ref.elem]
       IN  IF \/ ~InBounds(tbl, ref.r, ref.c)
              \/ Len(tbl.rows[ref.r + 1][ref.c + 1].runs) = 0
           THEN Raise("IndexError")
           ELSE /\ document' = [document EXCEPT !.body[ref.elem] =
                       SetCellBold(@, ref.r, ref.c)]
                /\ Advance
                /\ UNCHANGED locals
    /\ UNCHANGED <<cwd, fs, builds, assigned, saves, saveFailed, built>>

\* document.save(path): the file is written whole; or it cannot be opened for
\* writing (nothing is written); or the write fails on the way (a partial
\* file is left).  A failure is an OSError, which IOError names.
SaveStep ==
    /\ Running("save")
    /\ saves' = saves + 1
    /\ built' = Append(built, [dir |-> SaveTarget, body |-> document.body])
    /\ \E outcome \in {"ok", "open_failed", "write_failed"} :
          IF outcome = "ok"
          THEN /\ fs' = [fs EXCEPT ![SaveTarget] =
                      [state |-> "complete", body |-> document.body]]
               /\ Advance
               /\ UNCHANGED <<document, locals, saveFailed>>
          ELSE /\ fs' = IF outcome = "open_failed" THEN fs
                        ELSE [fs EXCEPT ![SaveTarget] =
                                 [state |-> "partial", body |-> <<>>]]
               /\ saveFailed' = TRUE
               /\ Raise("IOError")
    /\ UNCHANGED <<cwd, builds, assigned>>

\* The end of the function body: create_document() returns, its frame and
\* with it the document are released.
Return ==
    /\ status = "running"
    /\ pc = Len(Program) + 1
    /\ status' = "returned"
    /\ document' = NoDocument
    /\ locals' = NoLocals
    /\ UNCHANGED <<pc, exc, cwd, fs, builds, applied, assigned, saves, saveFailed, built>>

Next ==
    \/ Call
    \/ DocumentNew
    \/ AddHeadingStep
    \/ SetAlignmentStep
    \/ AddParagraphStep
    \/ AddRunStep
    \/ AddTableStep
    \/ SetTableStyleStep
    \/ RowCellsStep
    \/ CellTextStep
    \/ CellBoldStep
    \/ SaveStep
    \/ Return

Spec == Init /\ [][Next]_vars

(***************************************************************************)
(* Properties                                                              *)
(***************************************************************************)

\* The moment of save: document.save is the statement about to run.
AtSave == Running("save") /\ document.live

\* The save of this call has been made and succeeded; the call has not yet
\* returned.
Saved == status = "running" /\ saves = 1 /\ document.live

IsAdd(stmt) == stmt.op \in {"add_heading", "add_paragraph", "add_table"}

\* The statements of the function body that add a block-level element.
AddIndices == {k \in 1..Len(Program) : IsAdd(Program[k])}

\* A finite set of numbers as the sequence of its members in ascending order.
RECURSIVE Ascending(_)
Ascending(S) ==
    IF S = {} THEN << >>
    ELSE LET m == CHOOSE x \in S : \A y \in S : x <= y
         IN  << m >> \o Ascending(S \ {m})

\* For each element of the body, the statement that created it.
BodySources(body) == [i \in 1..Len(body) |-> body[i].src]

\* The element is what the call that created it asked for.
ElementMatchesCall(e) ==
    LET s == Program[e.src]
    IN  CASE s.op = "add_heading" ->
               /\ e.kind = "p"
               /\ e.style = HeadingStyle(s.level)
               /\ Len(e.runs) = 1 /\ e.runs[1].text = s.text
          [] s.op = "add_paragraph" ->
               /\ e.kind = "p"
               /\ e.style = s.style
               /\ s.text # "" => (Len(e.runs) = 1 /\ e.runs[1].text = s.text)
          [] s.op = "add_table" ->
               /\ e.kind = "tbl"
               /\ Len(e.rows) = s.r
          [] OTHER -> FALSE

\* C1. Order preservation: the document's element list is, at every point of
\* a build, the sequence of the add_heading / add_paragraph / add_table calls
\* made so far, in program order, each element the one its call asked for;
\* at the moment of save every such call of the function body has been made,
\* so that the list equals the whole sequence with nothing reordered,
\* duplicated or dropped, and that list is what a successful save writes.
OrderPreserved ==
    /\ document.live =>
          /\ BodySources(document.body) = Ascending({k \in applied : IsAdd(Program[k])})
          /\ \A i \in 1..Len(document.body) : ElementMatchesCall(document.body[i])
    /\ (AtSave \/ Saved) =>
          BodySources(document.body) = Ascending(AddIndices)
    /\ Saved =>
          /\ fs[SaveTarget].state = "complete"
          /\ fs[SaveTarget].body = document.body

\* The whole outline is in the document and in the file written from it.
OrderPreservedWitness ==
    /\ Saved
    /\ Len(document.body) = 40
    /\ Cardinality(AddIndices) = 40
    /\ fs[cwd].state = "complete"
    /\ Len(fs[cwd].body) = 40

\* The cell-text assignments of this call made against element i.
AssignedTo(i) == {k \in 1..Len(assigned) : assigned[k].elem = i}

TableShapeAt(i) ==
    LET t    == document.body[i]
        decl == Program[t.src]
        A    == AssignedTo(i)
    IN  /\ Len(t.rows) = decl.r
        /\ \A r \in 1..Len(t.rows) : Len(t.rows[r]) = decl.c
        /\ Cardinality(A) = decl.r * decl.c
        /\ \A k \in A : assigned[k].r < decl.r /\ assigned[k].c < decl.c
        /\ \A r \in 0..(decl.r - 1) : \A c \in 0..(decl.c - 1) :
              /\ Cardinality({k \in A : assigned[k].r = r /\ assigned[k].c = c}) = 1
              /\ Len(t.rows[r + 1][c + 1].runs) = 1
              /\ \A k \in A : (assigned[k].r = r /\ assigned[k].c = c) =>
                    t.rows[r + 1][c + 1].runs[1].text = assigned[k].text

Tables == {i \in 1..Len(document.body) : document.body[i].kind = "tbl"}

\* C2. Table shape: at save time every table created with add_table(rows,
\* cols) has exactly rows x cols cells, exactly rows * cols cell-text
\* assignments were made against it, each at an in-bounds (row, col), and each
\* cell was assigned once and holds the text assigned to it.
TableShape ==
    (AtSave \/ Saved) => \A i \in Tables : TableShapeAt(i)

\* All eight tables are in the document, their 89 cells assigned.
TableShapeWitness ==
    /\ AtSave
    /\ Cardinality(Tables) = 8
    /\ Len(assigned) = 89
    /\ \E i \in Tables : Len(document.body[i].rows) = 7
    /\ \E i \in Tables : Len(document.body[i].rows) = 5

\* Where a run is: in paragraph elem (part "p") as its run-th run, or in cell
\* (r, c) of table elem (part "cell"), with its text.
RunAt(elem, part, r, c, run, text) ==
    [elem |-> elem, part |-> part, r |-> r, c |-> c, run |-> run, text |-> text]

\* The runs of the body that satisfy Flag (a run's bold or italic flag).
FlaggedRuns(body, Flag(_)) ==
    LET P == {i \in 1..Len(body) : body[i].kind = "p"}
        T == {i \in 1..Len(body) : body[i].kind = "tbl"}
    IN  UNION ( {{RunAt(i, "p", 0, 0, k, body[i].runs[k].text) :
                     k \in {k \in 1..Len(body[i].runs) : Flag(body[i].runs[k])}} :
                 i \in P}
          \cup {UNION {UNION {{RunAt(i, "cell", r - 1, c - 1, k, body[i].rows[r][c].runs[k].text) :
                                  k \in {k \in 1..Len(body[i].rows[r][c].runs) :
                                            Flag(body[i].rows[r][c].runs[k])}} :
                              c \in 1..Len(body[i].rows[r])} :
                       r \in 1..Len(body[i].rows)} :
                 i \in T} )

IsBold(run) == run.bold

IsItalic(run) == run.italic

\* The runs the claim names as bold: the three labels of the metadata
\* paragraph, the first cell of each of the 7 summary rows, cells 0 and 2 of
\* the budget table's last row.
NamedBold ==
    {RunAt(locals["p"].elem, "p", 0, 0, 1, "Version: "),
     RunAt(locals["p"].elem, "p", 0, 0, 3, "Date: "),
     RunAt(locals["p"].elem, "p", 0, 0, 5, "Author: ")}
    \cup {RunAt(locals["summary_table"].elem, "cell", r, 0, 1, data[r + 1][1]) : r \in 0..6}
    \cup {RunAt(locals["budget_table"].elem, "cell", 4, 0, 1, "Total"),
          RunAt(locals["budget_table"].elem, "cell", 4, 2, 1, "TBD")}

\* The runs the claim names as italic: the two notes.
NamedItalic ==
    {RunAt(locals["p_italic"].elem, "p", 0, 0, 1,
           "Please see Project Plan for a detailed project schedule."),
     RunAt(locals["p_budget"].elem, "p", 0, 0, 1,
           "If the project budget has been created, list the payments related to the project below.")}

\* C3. Styling fidelity: at save time the bold runs are exactly the three
\* label runs of the metadata paragraph, the first-column run of each of the
\* 7 summary-table rows and cells 0 and 2 of the budget table's Total row;
\* the italic runs are exactly the two note paragraphs' runs; no other run
\* carries a flag.
StylingFidelity ==
    (AtSave \/ Saved) =>
        /\ FlaggedRuns(document.body, IsBold) = NamedBold
        /\ FlaggedRuns(document.body, IsItalic) = NamedItalic
        /\ NamedBold \cap NamedItalic = {}

\* The saved document holds its 12 bold and 2 italic runs.
StylingFidelityWitness ==
    /\ Saved
    /\ Cardinality(FlaggedRuns(fs[cwd].body, IsBold)) = 12
    /\ Cardinality(FlaggedRuns(fs[cwd].body, IsItalic)) = 2

\* C5. Failure of the file write: once a save has failed, the call has ended
\* with an IOError raised to its caller, at the save statement itself; the
\* save was made once and not again, the call has not returned normally, and
\* nothing of the call is left running that could recover.
IOErrorSurfaced ==
    saveFailed =>
        /\ status = "raised"
        /\ exc = "IOError"
        /\ saves = 1
        /\ pc \in 1..Len(Program) /\ Program[pc].op = "save"
        /\ ~document.live

\* A write failed on the way, leaving a partial file, and the call has raised.
IOErrorSurfacedWitness ==
    /\ saveFailed
    /\ status = "raised"
    /\ fs[cwd].state = "partial"

\* The statements of the function body other than the save.
BuildIndices == {k \in 1..Len(Program) : Program[k].op # "save"}

\* C6. Single write at the end: in a call the file system changes only in a
\* save step; a save is made only when every other statement of the function
\* body has been applied; at most one save is made; and once the save has
\* been made neither the document nor the file changes again in that call.
SingleWriteAtEnd ==
    [][ /\ fs' # fs => saves' = saves + 1
        /\ saves' > saves => (applied = BuildIndices /\ saves = 0)
        /\ saves' <= 1
        /\ (saves >= 1 /\ saves' >= 1) =>
               /\ fs' = fs
               /\ document'.live => document' = document ]_vars

\* The call has returned after its one save, the file written.
SingleWriteAtEndWitness ==
    /\ status = "returned"
    /\ saves = 1
    /\ applied = 1..Len(Program)
    /\ fs[cwd].state = "complete"

\* C7. Idempotence of structure: every build hands the same structure to its
\* save, whatever the destination and whatever the builds before it did, and
\* all complete output files hold that same structure.
StructureIdempotent ==
    /\ \A i \in 1..Len(built) : \A j \in 1..Len(built) : built[i].body = built[j].body
    /\ \A d \in Dirs : fs[d].state = "complete" =>
          \A i \in 1..Len(built) : fs[d].body = built[i].body

\* Two builds to two different destinations, both files written.
StructureIdempotentWitness ==
    /\ Len(built) = 2
    /\ built[1].dir # built[2].dir
    /\ Len(built[2].body) = 40
    /\ \A d \in Dirs : fs[d].state = "complete"

\* The state a call starts from.
CallStart ==
    /\ status = "running"
    /\ pc = 1
    /\ exc = "None"
    /\ document = NoDocument
    /\ locals = NoLocals
    /\ applied = {}
    /\ assigned = << >>
    /\ saves = 0
    /\ ~saveFailed

\* C8. Frame condition: a step changes no file but the one at the output
\* path, and that one only in the save step; Document() gives the call a new,
\* empty document; and every call starts from the same state, whatever the
\* calls before it left behind.
FrameCondition ==
    [][ /\ \A d \in Dirs : fs'[d] # fs[d] => (d = cwd /\ Running("save"))
        /\ Running("new_document") => (document'.live /\ document'.body = << >>)
        /\ builds' # builds => CallStart' ]_vars

\* A second call has made its new document, empty, although the first call's
\* output is in the working directory.
FrameConditionWitness ==
    /\ builds = 2
    /\ status = "running"
    /\ pc = 2
    /\ document.live /\ document.body = << >>
    /\ fs[cwd].state = "complete"

\* C9. Every access to a cell's first run to set it bold addresses a cell of
\* the table (row and column in bounds) whose text was assigned earlier in the
\* same call, so that the run exists; no call ends with an IndexError.
BoldTargetsPopulated ==
    /\ exc # "IndexError"
    /\ (Running("cell_bold") /\ document.live) =>
          LET ref == CellRef(Cur)
              tbl == document.body[ref.elem]
          IN  /\ locals[Cur.var].kind # "none"
              /\ InBounds(tbl, ref.r, ref.c)
              /\ Len(tbl.rows[ref.r + 1][ref.c + 1].runs) >= 1
              /\ \E k \in AssignedTo(ref.elem) :
                    assigned[k].r = ref.r /\ assigned[k].c = ref.c

\* The statements that set a cell's first run bold.
BoldIndices == {k \in 1..Len(Program) : Program[k].op = "cell_bold"}

\* All nine accesses (7 summary rows, 2 cells of the Total row) have been made.
BoldTargetsPopulatedWitness ==
    /\ status = "running"
    /\ Cardinality(BoldIndices) = 9
    /\ BoldIndices \subseteq applied
    /\ Cardinality(FlaggedRuns(document.body, IsBold)) = 12

IsHeading(e) == e.kind = "p" /\ \E l \in 0..9 : HeadingStyle(l) = e.style

LevelOf(e) == CHOOSE l \in 0..9 : HeadingStyle(l) = e.style

\* The headings of the body form a well-nested outline.
WellNested(body) ==
    LET H == {i \in 1..Len(body) : IsHeading(body[i])}
    IN  /\ Cardinality({i \in H : LevelOf(body[i]) = 0}) = 1
        /\ 1 \in H /\ LevelOf(body[1]) = 0
        /\ \A i \in H : i > 1 => LevelOf(body[i]) \in {1, 2}
        /\ \A i \in H : \A j \in H :
              (i < j /\ \A m \in H : ~(i < m /\ m < j)) =>
                  LevelOf(body[j]) <= LevelOf(body[i]) + 1
        /\ \A j \in H : LevelOf(body[j]) = 2 =>
              \E i \in H :
                  /\ i < j
                  /\ LevelOf(body[i]) = 1
                  /\ body[i].runs[1].text = "Project phases"
                  /\ \A m \in H : (i < m /\ m < j) => LevelOf(body[m]) = 2

\* C10 as stated: at every point of the build the headings are well nested,
\* with exactly one level-0 heading, the first element of the document.
HeadingsWellNestedAlways ==
    (status = "running" /\ document.live) => WellNested(document.body)

\* C10. Heading structure, from the emission of the title on: at every point
\* of the build at which the document has an element, exactly one level-0
\* heading exists and it is the first element, every later heading has level
\* 1 or 2, the level never rises by more than 1 from one heading to the next,
\* and each level-2 heading stands under the level-1 heading 'Project phases'.
HeadingsWellNestedOnceTitled ==
    (status = "running" /\ document.live /\ document.body # << >>) =>
        WellNested(document.body)

\* The four phase headings are out and the next level-1 heading has followed.
HeadingsWellNestedWitness ==
    /\ status = "running"
    /\ document.live
    /\ Cardinality({i \in 1..Len(document.body) :
           IsHeading(document.body[i]) /\ LevelOf(document.body[i]) = 2}) = 4
    /\ \E i \in 1..Len(document.body) :
           /\ IsHeading(document.body[i])
           /\ document.body[i].runs[1].text = "Project budget and billing schedule"

=============================================================================
